---- MODULE Spec2Model ----
(***************************************************************************)
(* Model of the website mirror of basic_wget (package mirror): the queue   *)
(* of resources, the seeding done by Mirror.Start, its single processing   *)
(* goroutine, Parser.processURL with its double-checked locking, and the   *)
(* URL and path functions of the Go standard library that the code calls.  *)
(*                                                                         *)
(* A Go string is a sequence of one-character strings, so that prefixes,   *)
(* extensions, fragments and path joins are computed, not assumed.         *)
(***************************************************************************)
EXTENDS Integers, Sequences, FiniteSets, TLC

(***************************************************************************)
(* Strings                                                                 *)
(***************************************************************************)

\* strings.HasPrefix(s, p)
HasPrefix(s, p) ==
    /\ Len(p) <= Len(s)
    /\ SubSeq(s, 1, Len(p)) = p

\* strings.Index(s, c) for a one-character c, 1-based; 0 when absent
RECURSIVE IndexFrom(_, _, _)
IndexFrom(s, c, i) ==
    IF i > Len(s) THEN 0
    ELSE IF s[i] = c THEN i
    ELSE IndexFrom(s, c, i + 1)

Index(s, c) == IndexFrom(s, c, 1)

\* strings.LastIndex(s, c) for a one-character c, 1-based; 0 when absent
RECURSIVE LastIndexFrom(_, _, _)
LastIndexFrom(s, c, i) ==
    IF i < 1 THEN 0
    ELSE IF s[i] = c THEN i
    ELSE LastIndexFrom(s, c, i - 1)

LastIndex(s, c) == LastIndexFrom(s, c, Len(s))

\* the part of s from position i on (s[i-1:] in Go)
Tail0(s, i) == SubSeq(s, i, Len(s))

\* strings.Split(s, c): the elements of s between occurrences of c
RECURSIVE Split(_, _)
Split(s, c) ==
    LET i == Index(s, c)
    IN  IF i = 0 THEN <<s>>
        ELSE <<SubSeq(s, 1, i - 1)>> \o Split(Tail0(s, i + 1), c)

\* strings.Join(elems, "/")
RECURSIVE JoinSlash(_)
JoinSlash(elems) ==
    IF Len(elems) = 0 THEN <<>>
    ELSE IF Len(elems) = 1 THEN elems[1]
    ELSE elems[1] \o <<"/">> \o JoinSlash(Tail(elems))

\* unicode.ToLower on the letters the model uses in upper case
LowerChar(c) ==
    CASE c = "J" -> "j"
      [] c = "P" -> "p"
      [] c = "G" -> "g"
      [] c = "H" -> "h"
      [] OTHER   -> c

\* strings.ToLower(s)
ToLower(s) == [i \in 1..Len(s) |-> LowerChar(s[i])]

Letters == {"a", "b", "c", "d", "e", "g", "h", "i", "j", "l", "m", "o",
            "p", "s", "t", "u", "x", "G", "H", "J", "P"}

(***************************************************************************)
(* package path                                                            *)
(***************************************************************************)

\* the elements of a path that Clean keeps, in order: empty elements and
\* "." are dropped, ".." removes the element before it (at the root it is
\* dropped, in a relative path with nothing to remove it is kept)
RECURSIVE CleanElems(_, _, _)
CleanElems(elems, acc, rooted) ==
    IF Len(elems) = 0 THEN acc
    ELSE LET e == elems[1]
             rest == Tail(elems)
         IN  IF e = <<>> \/ e = <<".">>
             THEN CleanElems(rest, acc, rooted)
             ELSE IF e = <<".", ".">>
             THEN IF Len(acc) > 0 /\ acc[Len(acc)] # <<".", ".">>
                  THEN CleanElems(rest, SubSeq(acc, 1, Len(acc) - 1), rooted)
                  ELSE IF rooted
                  THEN CleanElems(rest, acc, rooted)
                  ELSE CleanElems(rest, Append(acc, e), rooted)
             ELSE CleanElems(rest, Append(acc, e), rooted)

\* path.Clean(p)
Clean(p) ==
    IF p = <<>> THEN <<".">>
    ELSE LET rooted == p[1] = "/"
             joined == JoinSlash(CleanElems(Split(p, "/"), <<>>, rooted))
         IN  IF rooted THEN <<"/">> \o joined
             ELSE IF joined = <<>> THEN <<".">>
             ELSE joined

\* the non-empty elements of a sequence of strings
RECURSIVE NonEmpty(_)
NonEmpty(elems) ==
    IF Len(elems) = 0 THEN <<>>
    ELSE IF elems[1] = <<>> THEN NonEmpty(Tail(elems))
    ELSE <<elems[1]>> \o NonEmpty(Tail(elems))

\* path.Join(elems...): the non-empty elements joined by "/", then cleaned
Join(elems) ==
    IF NonEmpty(elems) = <<>> THEN <<>>
    ELSE Clean(JoinSlash(NonEmpty(elems)))

\* p without its trailing slashes
RECURSIVE StripTrailingSlashes(_)
StripTrailingSlashes(p) ==
    IF Len(p) > 0 /\ p[Len(p)] = "/"
    THEN StripTrailingSlashes(SubSeq(p, 1, Len(p) - 1))
    ELSE p

\* path.Base(p)
Base(p) ==
    IF p = <<>> THEN <<".">>
    ELSE LET q == StripTrailingSlashes(p)
             r == Tail0(q, LastIndex(q, "/") + 1)
         IN  IF r = <<>> THEN <<"/">> ELSE r

\* filepath.Dir(p): p up to its last slash, cleaned
Dir(p) == Clean(SubSeq(p, 1, LastIndex(p, "/")))

\* path.Ext(p): from the last dot of the last element of p, or empty
RECURSIVE ExtFrom(_, _)
ExtFrom(p, i) ==
    IF i < 1 \/ p[i] = "/" THEN <<>>
    ELSE IF p[i] = "." THEN Tail0(p, i)
    ELSE ExtFrom(p, i - 1)

Ext(p) == ExtFrom(p, Len(p))

(***************************************************************************)
(* package net/url                                                         *)
(***************************************************************************)

\* url.getScheme: the position of the colon that ends the scheme, 0 when
\* the string has no scheme, -1 for "missing protocol scheme"
RECURSIVE SchemeEnd(_, _)
SchemeEnd(s, i) ==
    IF i > Len(s) THEN 0
    ELSE IF s[i] \in Letters THEN SchemeEnd(s, i + 1)
    ELSE IF s[i] = "." THEN (IF i = 1 THEN 0 ELSE SchemeEnd(s, i + 1))
    ELSE IF s[i] = ":" THEN (IF i = 1 THEN -1 ELSE i)
    ELSE 0

NoURL == [ok |-> FALSE, Scheme |-> <<>>, Opaque |-> <<>>, Host |-> <<>>,
          Path |-> <<>>, Fragment |-> <<>>]

\* url.Parse(rawURL) on strings without query, userinfo or escapes
ParseURL(rawURL) ==
    LET h == Index(rawURL, "#")
        u == IF h = 0 THEN rawURL ELSE SubSeq(rawURL, 1, h - 1)
        frag == IF h = 0 THEN <<>> ELSE Tail0(rawURL, h + 1)
        se == SchemeEnd(u, 1)
        scheme == IF se > 0 THEN ToLower(SubSeq(u, 1, se - 1)) ELSE <<>>
        rest == IF se > 0 THEN Tail0(u, se + 1) ELSE u
        seg1 == Split(rest, "/")[1]
        hasAuth == HasPrefix(rest, <<"/", "/">>)
        auth == Tail0(rest, 3)
        sl == Index(auth, "/")
    IN  IF se = -1 THEN NoURL
        ELSE IF ~HasPrefix(rest, <<"/">>) /\ scheme # <<>>
        THEN [ok |-> TRUE, Scheme |-> scheme, Opaque |-> rest, Host |-> <<>>,
              Path |-> <<>>, Fragment |-> frag]
        ELSE IF ~HasPrefix(rest, <<"/">>) /\ Index(seg1, ":") # 0
        THEN NoURL
        ELSE IF hasAuth /\ (scheme # <<>> \/ ~HasPrefix(rest, <<"/", "/", "/">>))
        THEN [ok |-> TRUE, Scheme |-> scheme, Opaque |-> <<>>,
              Host |-> IF sl = 0 THEN auth ELSE SubSeq(auth, 1, sl - 1),
              Path |-> IF sl = 0 THEN <<>> ELSE Tail0(auth, sl),
              Fragment |-> frag]
        ELSE [ok |-> TRUE, Scheme |-> scheme, Opaque |-> <<>>, Host |-> <<>>,
              Path |-> rest, Fragment |-> frag]

\* (*URL).IsAbs
IsAbs(u) == u.Scheme # <<>>

\* (*URL).String
URLString(u) ==
    LET sch == IF u.Scheme # <<>> THEN u.Scheme \o <<":">> ELSE <<>>
        slashes == IF (u.Scheme # <<>> \/ u.Host # <<>>)
                      /\ (u.Host # <<>> \/ u.Path # <<>>)
                   THEN <<"/", "/">> \o u.Host ELSE <<>>
        sep == IF u.Path # <<>> /\ u.Path[1] # "/" /\ u.Host # <<>>
               THEN <<"/">> ELSE <<>>
        dot == IF sch = <<>> /\ slashes = <<>>
                  /\ Index(Split(u.Path, "/")[1], ":") # 0
               THEN <<".", "/">> ELSE <<>>
        frag == IF u.Fragment # <<>> THEN <<"#">> \o u.Fragment ELSE <<>>
    IN  IF u.Opaque # <<>> THEN sch \o u.Opaque \o frag
        ELSE sch \o slashes \o sep \o dot \o u.Path \o frag

\* the loop of url.resolvePath over the elements of the path: dst is the
\* text written so far (after the initial "/"), first tells whether the
\* next element is written without a separator
RECURSIVE ResolveElems(_, _, _)
ResolveElems(elems, dst, first) ==
    IF Len(elems) = 0 THEN dst
    ELSE LET e == elems[1]
             rest == Tail(elems)
             cut == LastIndex(dst, "/")
         IN  IF e = <<".">> THEN ResolveElems(rest, dst, FALSE)
             ELSE IF e = <<".", ".">>
             THEN IF cut = 0 THEN ResolveElems(rest, <<>>, TRUE)
                  ELSE ResolveElems(rest, SubSeq(dst, 1, cut - 1), first)
             ELSE ResolveElems(rest,
                               (IF first THEN dst ELSE dst \o <<"/">>) \o e,
                               FALSE)

\* url.resolvePath(base, ref)
ResolvePath(base, ref) ==
    LET full == IF ref = <<>> THEN base
                ELSE IF ref[1] # "/"
                THEN SubSeq(base, 1, LastIndex(base, "/")) \o ref
                ELSE ref
        elems == Split(full, "/")
        last == elems[Len(elems)]
        r == <<"/">> \o ResolveElems(elems, <<>>, TRUE)
                    \o (IF last = <<".">> \/ last = <<".", ".">>
                        THEN <<"/">> ELSE <<>>)
    IN  IF full = <<>> THEN <<>>
        ELSE IF Len(r) > 1 /\ r[2] = "/" THEN Tail(r)
        ELSE r

\* (*URL).ResolveReference(ref) on URLs without query or userinfo
ResolveReference(base, ref) ==
    LET scheme == IF ref.Scheme = <<>> THEN base.Scheme ELSE ref.Scheme
    IN  IF ref.Scheme # <<>> \/ ref.Host # <<>>
        THEN [ref EXCEPT !.Scheme = scheme,
                         !.Path = ResolvePath(ref.Path, <<>>)]
        ELSE IF ref.Opaque # <<>>
        THEN [ref EXCEPT !.Scheme = scheme, !.Host = <<>>, !.Path = <<>>]
        ELSE [ref EXCEPT !.Scheme = scheme,
                         !.Host = base.Host,
                         !.Path = ResolvePath(base.Path, ref.Path),
                         !.Fragment = IF ref.Path = <<>> /\ ref.Fragment = <<>>
                                      THEN base.Fragment ELSE ref.Fragment]

(***************************************************************************)
(* The configurations, the link values and the documents of the crawl      *)
(***************************************************************************)

\* the number of goroutines that run Parser.Parse on the same queue
NumProcs == 2

\* the number of link attributes in one fetched document
MaxLinks == 2

Procs == 1..NumProcs

\* Mirror.Start launches exactly one processing goroutine
Worker == 1

HostH == <<"h">>
SeedURL == <<"h", "t", "t", "p", ":", "/", "/", "h", "/", "i", ".", "h", "t", "m", "l">>
SeedExcludedURL == <<"h", "t", "t", "p", ":", "/", "/", "h", "/", "x", "/", "i", ".", "h", "t", "m", "l">>
BadURL == <<":", "b">>
OutDir == <<"o", "u", "t">>

\* href and src values as they are written in a page
LinkRel == <<"a", ".", "h", "t", "m", "l">>
LinkFrag == <<"a", ".", "h", "t", "m", "l", "#", "s">>
LinkAbs == <<"h", "t", "t", "p", ":", "/", "/", "h", "/", "a", ".", "h", "t", "m", "l">>
LinkReject == <<"/", "b", ".", "J", "P", "G">>
LinkExclude == <<"/", "x", "/", "c", ".", "c", "s", "s">>
LinkOther == <<"h", "t", "t", "p", ":", "/", "/", "o", "/", "a", ".", "h", "t", "m", "l">>
LinkAnchor == <<"#", "s">>
LinkCss == <<"/", "s", ".", "c", "s", "s">>
LinkSeed == <<"/", "i", ".", "h", "t", "m", "l">>
LinkBare == <<"/", "p">>
LinkNet == <<"/", "/", "o", "/", "a", ".", "h", "t", "m", "l">>

LinkValues == {LinkRel, LinkFrag, LinkAbs, LinkReject, LinkExclude,
               LinkOther, LinkAnchor, LinkCss, LinkSeed, BadURL}

\* mirror.Config as main builds it from the command line
Configs ==
    { [URL |-> SeedURL, RejectTypes |-> <<<<"j", "p", "g">>>>,
       ExcludePaths |-> <<<<"/", "x">>>>, ConvertLinks |-> TRUE,
       OutputDir |-> <<>>],
      [URL |-> SeedExcludedURL, RejectTypes |-> <<<<"j", "p", "g">>>>,
       ExcludePaths |-> <<<<"/", "x">>>>, ConvertLinks |-> FALSE,
       OutputDir |-> OutDir],
      [URL |-> BadURL, RejectTypes |-> <<>>, ExcludePaths |-> <<>>,
       ConvertLinks |-> FALSE, OutputDir |-> <<>>] }

\* the sequences of at most n elements of S
RECURSIVE SeqsUpTo(_, _)
SeqsUpTo(S, n) ==
    IF n = 0 THEN {<<>>}
    ELSE LET shorter == SeqsUpTo(S, n - 1)
         IN  shorter \cup {Append(d, l) : d \in shorter, l \in S}

\* a document is the sequence of the link values of its a, link, img and
\* script elements, in the order Parse visits them
Docs == SeqsUpTo(LinkValues, MaxLinks)

\* more kinds of value: a path without extension, a value that names
\* another host without a scheme, an empty value
PageLinkValues == LinkValues \cup {LinkBare, LinkNet, <<>>}

\* the documents of a page that holds any of these
PageDocs == SeqsUpTo(PageLinkValues, MaxLinks)

(***************************************************************************)
(* State                                                                   *)
(***************************************************************************)

VARIABLES
    config,     \* the *Config shared by Mirror, Parser and Converter
    mainpc,     \* where the goroutine that calls New and Start is
    result,     \* what New or Start has returned
    Resources,  \* Queue.Resources: the buffered channel, oldest first
    closed,     \* whether Queue.Resources has been closed
    Processed,  \* Queue.Processed: the keys mapped to true
    readers,    \* Queue.ProcessLock: the goroutines that hold the read lock
    writer,     \* Queue.ProcessLock: the goroutine that has called Lock, or 0
    pc,         \* where each processing goroutine is
    cur,        \* the resource a goroutine has received from the channel
    body,       \* the document downloadResource wrote for that resource
    todo,       \* the link values Parse still has to hand to processURL
    cand,       \* the Resource processURL has built for the current link
    sent,       \* every Resource ever sent on Queue.Resources, in order
    fetchLog,   \* the URL of every call of downloadResource, in order
    ndeq,       \* how many resources the range loop has received
    nsettled,   \* how many received resources the loop has finished with
    err,        \* the step that failed for the current resource, or "nil"
    files,      \* the paths of the files that exist under OutputDir
    page,       \* the file at the LocalPath of each goroutine's resource
    inputFile,  \* downloadMultipleFiles: the lines of the file given with -i
    urls,       \* downloadMultipleFiles: the slice the scanner loop has built
    dmpc,       \* where downloadMultipleFiles is
    started,    \* how many goroutines its range loop has started
    wg,         \* the counter of its sync.WaitGroup
    gpc,        \* where the goroutine started for each element of urls is
    logged,     \* the elements of urls whose error log.Printf has printed
    dmret       \* what downloadMultipleFiles has returned

vars == <<config, mainpc, result, Resources, closed, Processed, readers,
          writer, pc, cur, body, todo, cand, sent, fetchLog, ndeq, nsettled,
          err, files, page, inputFile, urls, dmpc, started, wg, gpc, logged,
          dmret>>

multiVars == <<inputFile, urls, dmpc, started, wg, gpc, logged, dmret>>

lockVars == <<readers, writer>>
histVars == <<sent, fetchLog, ndeq, nsettled, err>>

\* make(chan Resource, 1000)
QueueCap == 1000

NoRes == [URL |-> <<>>, LocalPath |-> <<>>, IsHTML |-> FALSE]

\* p.baseURL and c.baseURL: url.Parse(config.URL), kept by NewParser
BaseURL(cfg) == ParseURL(cfg.URL)

(***************************************************************************)
(* Parser.processURL, lines 67-105 and 114-118: the Resource built for a   *)
(* link value, or NoRes when the value is skipped                          *)
(***************************************************************************)

\* the URL of a link value, made absolute against the parser's base URL
Resolve(cfg, rawURL) ==
    LET u == ParseURL(rawURL)
    IN  IF IsAbs(u) THEN u ELSE ResolveReference(BaseURL(cfg), u)

\* strings.HasPrefix(u.Path, exclude) for some entry of ExcludePaths
Excluded(cfg, path) ==
    \E i \in 1..Len(cfg.ExcludePaths) : HasPrefix(path, cfg.ExcludePaths[i])

\* the lower-cased extension of the path, without its dot
ExtOf(path) ==
    LET e == ToLower(Ext(path))
    IN  IF e = <<>> THEN <<>> ELSE Tail(e)

\* ext == reject for some entry of RejectTypes
Rejected(cfg, path) ==
    /\ ExtOf(path) # <<>>
    /\ \E i \in 1..Len(cfg.RejectTypes) : ExtOf(path) = cfg.RejectTypes[i]

\* processURL without the host test of lines 84-87
SameHostSkipped(cfg, u) == TRUE

\* lines 84-87: u.Host != p.baseURL.Host
SameHost(cfg, u) == u.Host = BaseURL(cfg).Host

NewResource(cfg, u) ==
    [URL |-> URLString(u),
     LocalPath |-> Join(<<cfg.OutputDir, u.Host, u.Path>>),
     IsHTML |-> ExtOf(u.Path) \in {<<"h", "t", "m", "l">>, <<"h", "t", "m">>}]

Candidate(cfg, rawURL) ==
    IF rawURL = <<>> \/ HasPrefix(rawURL, <<"#">>) THEN NoRes
    ELSE IF ~ParseURL(rawURL).ok THEN NoRes
    ELSE LET u == Resolve(cfg, rawURL)
         IN  IF ~SameHost(cfg, u) THEN NoRes
             ELSE IF Excluded(cfg, u.Path) THEN NoRes
             ELSE IF Rejected(cfg, u.Path) THEN NoRes
             ELSE NewResource(cfg, u)

\* Mirror.Start, lines 121-125
InitialResource(cfg) ==
    [URL |-> cfg.URL,
     LocalPath |-> Join(<<cfg.OutputDir, Base(cfg.URL)>>),
     IsHTML |-> TRUE]

\* New, lines 89-91: an empty OutputDir becomes the host of the seed URL
WithOutputDir(cfg) ==
    [cfg EXCEPT !.OutputDir = IF cfg.OutputDir = <<>>
                              THEN ParseURL(cfg.URL).Host
                              ELSE cfg.OutputDir]

(***************************************************************************)
(* Converter: converter.go                                                 *)
(***************************************************************************)

\* Converter.convertPath(rawURL, basePath), lines 85-107; the empty string
\* tells convertNode to leave the value alone
ConvertPath(cfg, rawURL, basePath) ==
    IF rawURL = <<>> \/ HasPrefix(rawURL, <<"#">>) THEN <<>>
    ELSE LET u == ParseURL(rawURL)
         IN  IF ~u.ok THEN <<>>
             ELSE IF IsAbs(u)
             THEN IF u.Host # BaseURL(cfg).Host THEN <<>>
                  ELSE Join(<<cfg.OutputDir, u.Host, u.Path>>)
             ELSE Join(<<basePath, u.Path>>)

\* Converter.convertNode, lines 68-76: the value of one href or src after
\* the conversion of the file at filePath
ConvertValue(cfg, filePath, rawURL) ==
    LET newPath == ConvertPath(cfg, rawURL, Dir(filePath))
    IN  IF newPath # <<>> THEN newPath ELSE rawURL

\* Converter.convertNode over the tree: every href and src of the document
ConvertDoc(cfg, filePath, doc) ==
    [i \in 1..Len(doc) |-> ConvertValue(cfg, filePath, doc[i])]

(***************************************************************************)
(* Files. Of the files under OutputDir the model keeps which paths exist,  *)
(* and the text of the one file each goroutine is working on: the href and *)
(* src values in it (links), what downloadResource wrote there (fetched),  *)
(* how often ConvertLinks has rewritten it since (conv), and whether its   *)
(* last write was completed (whole). Nothing reads a file again once the   *)
(* loop has gone on to the next resource                                   *)
(***************************************************************************)

NoFile == [path |-> <<>>, links |-> <<>>, fetched |-> <<>>, conv |-> 0,
           whole |-> TRUE]

\* the file downloadResource leaves when io.Copy has copied the whole body
FetchedFile(filePath, doc) ==
    [path |-> filePath, links |-> doc, fetched |-> doc, conv |-> 0,
     whole |-> TRUE]

\* a file whose write stopped part of the way: os.Create or os.WriteFile
\* has truncated it and not all of the text has followed
TornFile(f) == [f EXCEPT !.links = <<>>, !.whole = FALSE]

\* ConvertLinks, lines 46-54: the file written back with converted values
ConvertedFile(cfg, f) ==
    [f EXCEPT !.links = ConvertDoc(cfg, f.path, f.links),
              !.conv = f.conv + 1]

\* the configurations Start can run with: those New accepts, as New leaves
\* them
RunConfigs == {WithOutputDir(c) : c \in {d \in Configs : ParseURL(d.URL).ok}}

\* a function as the explicit table of its values, so that its values are
\* computed once
Table(f) == f @@ <<>>

\* Candidate and InitialResource for every configuration and link value of
\* the model
\* the decimal digits of n, as strconv.Itoa writes them
RECURSIVE Itoa(_)
Itoa(n) ==
    LET d == <<"0", "1", "2", "3", "4", "5", "6", "7", "8", "9">>[(n % 10) + 1]
    IN  IF n < 10 THEN <<d>> ELSE Append(Itoa(n \div 10), d)

\* the link to the n-th of many resources of the seed's host: "/n"
LinkNum(n) == <<"/">> \o Itoa(n)

\* the first links of a page with many links: QueueCap - 1 links to as
\* many different resources
ManyLinks == [i \in 1..(QueueCap - 1) |-> LinkNum(i)]

\* the number of links of the page after those
MaxTail == 3

\* the links after those: to two further resources, to the seed, and to
\* another host
TailLinks == {LinkNum(QueueCap), LinkNum(QueueCap + 1), LinkSeed, LinkOther}

\* the last links of such a page
TailDocs == SeqsUpTo(TailLinks, MaxTail) \ {<<>>}

FullLinkValues == {LinkNum(i) : i \in 1..(QueueCap + 1)}

\* the configuration of a crawl of such a page
FullConfigs == {c \in RunConfigs : c.URL = SeedURL}

CandidateOf ==
    Table([cl \in RunConfigs \X PageLinkValues |-> Candidate(cl[1], cl[2])])

\* Candidate for the links of a page with many links
ManyCandidateOf ==
    Table([cl \in FullConfigs \X FullLinkValues |-> Candidate(cl[1], cl[2])])

\* the Resource processURL builds for a link value, from the tables
ResourceOf(cfg, rawURL) ==
    IF rawURL \in PageLinkValues
    THEN CandidateOf[<<cfg, rawURL>>]
    ELSE ManyCandidateOf[<<cfg, rawURL>>]

InitialResourceOf == Table([c \in RunConfigs |-> InitialResource(c)])

\* whether url.Parse accepts the URL of a configuration
ParsableOf == Table([c \in Configs \cup RunConfigs |-> ParseURL(c.URL).ok])

(***************************************************************************)
(* downloadMultipleFiles (main.go, lines 201-226): the input file          *)
(***************************************************************************)

\* the number of lines of the file given with -i
MaxLines == 3

\* the goroutines downloadMultipleFiles can start, one per element of urls
Routines == 1..MaxLines

\* a line of the input file: its text, and whether it is longer than the
\* buffer of a bufio.Scanner (bufio.MaxScanTokenSize, 64 KiB)
ShortLine(text) == [text |-> text, long |-> FALSE]
LongLine == [text |-> <<>>, long |-> TRUE]

\* a URL that can be fetched, a URL http.Get rejects, an empty line
InputLines == {ShortLine(SeedURL), ShortLine(BadURL), ShortLine(<<>>), LongLine}

InputFiles == SeqsUpTo(InputLines, MaxLines)

\* the lines scanner.Scan() returns before it stops: Scan returns false at
\* the end of the file and at the first line that does not fit its buffer
Scanned(f) ==
    LET stop == {i \in 1..Len(f) : f[i].long}
        n == IF stop = {} THEN Len(f)
             ELSE (CHOOSE i \in stop : \A j \in stop : i <= j) - 1
    IN  [i \in 1..n |-> f[i].text]

\* whether http.Get can answer at all: the URL has the scheme http and a
\* host
Gettable(u) ==
    LET v == ParseURL(u)
    IN  v.ok /\ v.Scheme = <<"h", "t", "t", "p">> /\ v.Host # <<>>

GettableOf == Table([l \in InputLines |-> Gettable(l.text)])

\* downloadMultipleFiles has not been called
MultiIdle ==
    /\ inputFile = <<>>
    /\ urls = <<>>
    /\ dmpc = "idle"
    /\ started = 0
    /\ wg = 0
    /\ gpc = [i \in Routines |-> "none"]
    /\ logged = {}
    /\ dmret = "none"

(***************************************************************************)
(* Initial states                                                          *)
(***************************************************************************)

Idle == [p \in Procs |-> "idle"]

InitCommon ==
    /\ closed = FALSE
    /\ readers = {}
    /\ writer = 0
    /\ cur = [p \in Procs |-> NoRes]
    /\ body = [p \in Procs |-> <<>>]
    /\ cand = [p \in Procs |-> NoRes]
    /\ fetchLog = <<>>
    /\ ndeq = 0
    /\ nsettled = 0
    /\ err = [p \in Procs |-> "nil"]
    /\ files = {}
    /\ page = [p \in Procs |-> NoFile]

\* main has built the Config; New has not been called yet
Init ==
    /\ InitCommon
    /\ MultiIdle
    /\ config \in Configs
    /\ mainpc = "new"
    /\ result = "none"
    /\ Resources = <<>>
    /\ Processed = {}
    /\ pc = Idle
    /\ todo = [p \in Procs |-> <<>>]
    /\ sent = <<>>

(***************************************************************************)
(* New and Mirror.Start                                                    *)
(***************************************************************************)

\* New: the seed URL is parsed, an empty OutputDir becomes the seed's host,
\* the queue is created
New ==
    /\ mainpc = "new"
    /\ IF ~ParsableOf[config]
       THEN /\ result' = "error"
            /\ mainpc' = "exit"
            /\ UNCHANGED config
       ELSE /\ config' = WithOutputDir(config)
            /\ mainpc' = "start"
            /\ UNCHANGED result
    /\ UNCHANGED <<multiVars, files, page, Resources, closed, Processed, lockVars, pc, cur, body,
                   todo, cand, histVars>>

\* Mirror.Start, lines 120-136 and 171: the seed is sent on the channel and
\* marked, one goroutine is started, Start waits for it
Start ==
    /\ mainpc = "start"
    /\ Len(Resources) < QueueCap
    /\ Resources' = Append(Resources, InitialResourceOf[config])
    /\ sent' = Append(sent, InitialResourceOf[config])
    /\ Processed' = Processed \cup {config.URL}
    /\ pc' = [pc EXCEPT ![Worker] = "recv"]
    /\ mainpc' = "wait"
    /\ UNCHANGED <<multiVars, files, page, config, result, closed, lockVars, cur, body, todo, cand,
                   fetchLog, ndeq, nsettled, err>>

(***************************************************************************)
(* The processing goroutine of Mirror.Start, lines 136-168                 *)
(***************************************************************************)

\* the loop has finished with the current resource and ranges again
Settle(p) ==
    /\ pc' = [pc EXCEPT ![p] = "recv"]
    /\ cur' = [cur EXCEPT ![p] = NoRes]
    /\ body' = [body EXCEPT ![p] = <<>>]
    /\ nsettled' = nsettled + 1

\* a loop that ends at the first download error, as the workers of
\* Downloader.Download do
StopOnError(p) ==
    /\ pc' = [pc EXCEPT ![p] = "done"]
    /\ UNCHANGED <<cur, body, nsettled>>

\* lines 143-144: the download error is printed and the loop continues
ContinueOnError(p) == Settle(p)

\* the error a step returns is printed, lines 143, 151, 156 and 163
Failed(p, step) == err' = [err EXCEPT ![p] = step]

\* for resource := range m.queue.Resources: the next resource, or the end
\* of the loop when the channel is closed and drained; then the deferred
\* close(m.queue.Resources) runs on a closed channel and panics
Recv(p) ==
    /\ pc[p] = "recv"
    /\ Len(Resources) > 0 \/ closed
    /\ IF Len(Resources) > 0
       THEN /\ cur' = [cur EXCEPT ![p] = Head(Resources)]
            /\ Resources' = Tail(Resources)
            /\ ndeq' = ndeq + 1
            /\ err' = [err EXCEPT ![p] = "nil"]
            /\ pc' = [pc EXCEPT ![p] = "download"]
            /\ page' = [page EXCEPT ![p] = NoFile]
            /\ UNCHANGED <<mainpc, result>>
       ELSE /\ pc' = [pc EXCEPT ![p] = "done"]
            /\ mainpc' = "exit"
            /\ result' = "panic"
            /\ UNCHANGED <<cur, Resources, ndeq, err, page>>
    /\ UNCHANGED <<multiVars, files, config, closed, Processed, lockVars, body, todo, cand,
                   sent, fetchLog, nsettled>>

\* Downloader.downloadResource and lines 142-148 of Mirror.Start.
\* MkdirAll, Get, the status test or os.Create fails and nothing is written;
\* or io.Copy fails after os.Create has truncated the file; or the body is
\* written to LocalPath. After an error the loop continues
Download(p) ==
    /\ pc[p] = "download"
    /\ fetchLog' = Append(fetchLog, cur[p].URL)
    /\ \/ /\ Failed(p, "download")
          /\ ContinueOnError(p)
          /\ UNCHANGED <<files, page>>
       \/ /\ Failed(p, "download")
          /\ ContinueOnError(p)
          /\ files' = files \cup {cur[p].LocalPath}
          /\ page' = [page EXCEPT
                        ![p] = TornFile(FetchedFile(cur[p].LocalPath, <<>>))]
       \/ /\ cur[p].IsHTML
          /\ \E d \in Docs :
                /\ body' = [body EXCEPT ![p] = d]
                /\ page' = [page EXCEPT
                              ![p] = FetchedFile(cur[p].LocalPath, d)]
          /\ files' = files \cup {cur[p].LocalPath}
          /\ pc' = [pc EXCEPT ![p] = "open"]
          /\ UNCHANGED <<cur, nsettled, err>>
       \/ /\ ~cur[p].IsHTML
          /\ files' = files \cup {cur[p].LocalPath}
          /\ page' = [page EXCEPT
                        ![p] = FetchedFile(cur[p].LocalPath, <<>>)]
          /\ Settle(p)
          /\ UNCHANGED err
    /\ UNCHANGED <<multiVars, config, mainpc, result, Resources, closed,
                   Processed, lockVars, todo, cand, sent, ndeq>>

\* os.Open(resource.LocalPath), lines 149-153
Open(p) ==
    /\ pc[p] = "open"
    /\ \/ /\ Failed(p, "open")
          /\ Settle(p)
       \/ /\ pc' = [pc EXCEPT ![p] = "parse"]
          /\ UNCHANGED <<cur, body, nsettled, err>>
    /\ UNCHANGED <<multiVars, files, page, config, mainpc, result, Resources, closed, Processed,
                   lockVars, todo, cand, sent, fetchLog, ndeq>>

\* Parser.Parse, lines 32-37, and lines 155-157 of Mirror.Start: html.Parse
\* fails and the error is only printed, or the walk over the tree starts
ParseDoc(p) ==
    /\ pc[p] = "parse"
    /\ \/ /\ Failed(p, "parse")
          /\ pc' = [pc EXCEPT ![p] = "close"]
          /\ UNCHANGED todo
       \/ /\ todo' = [todo EXCEPT ![p] = body[p]]
          /\ pc' = [pc EXCEPT ![p] = IF body[p] = <<>> THEN "close" ELSE "pu"]
          /\ UNCHANGED err
    /\ UNCHANGED <<multiVars, files, page, config, mainpc, result, Resources, closed, Processed,
                   lockVars, cur, body, cand, sent, fetchLog, ndeq, nsettled>>

(***************************************************************************)
(* Parser.processURL, one step per shared access                           *)
(***************************************************************************)

\* processURL returns and the walk of Parse goes on to the next attribute
Return(p) ==
    /\ todo' = [todo EXCEPT ![p] = Tail(todo[p])]
    /\ cand' = [cand EXCEPT ![p] = NoRes]
    /\ pc' = [pc EXCEPT ![p] = IF Tail(todo[p]) = <<>> THEN "close" ELSE "pu"]

\* lines 67-105: the value is skipped, or its Resource is built
Filter(p) ==
    /\ pc[p] = "pu"
    /\ LET c == ResourceOf(config, Head(todo[p]))
       IN  IF c = NoRes
           THEN Return(p)
           ELSE /\ cand' = [cand EXCEPT ![p] = c]
                /\ pc' = [pc EXCEPT ![p] = "rlock"]
                /\ UNCHANGED todo
    /\ UNCHANGED <<multiVars, files, page, config, mainpc, result, Resources, closed, Processed,
                   lockVars, cur, body, histVars>>

\* line 108: ProcessLock.RLock() waits while a goroutine has called Lock
RLock(p) ==
    /\ pc[p] = "rlock"
    /\ writer = 0
    /\ readers' = readers \cup {p}
    /\ pc' = [pc EXCEPT ![p] = "check1"]
    /\ UNCHANGED <<multiVars, files, page, config, mainpc, result, Resources, closed, Processed,
                   writer, cur, body, todo, cand, histVars>>

\* lines 109-110 and 121-122: the first look at Processed, then RUnlock
Check1(p) ==
    /\ pc[p] = "check1"
    /\ readers' = readers \ {p}
    /\ IF cand[p].URL \notin Processed
       THEN /\ pc' = [pc EXCEPT ![p] = "lock"]
            /\ UNCHANGED <<todo, cand>>
       ELSE Return(p)
    /\ UNCHANGED <<multiVars, files, page, config, mainpc, result, Resources, closed, Processed,
                   writer, cur, body, histVars>>

\* line 111: ProcessLock.Lock() takes the writers' mutex and keeps new
\* readers out
Lock(p) ==
    /\ pc[p] = "lock"
    /\ writer = 0
    /\ writer' = p
    /\ pc' = [pc EXCEPT ![p] = "lockwait"]
    /\ UNCHANGED <<multiVars, files, page, config, mainpc, result, Resources, closed, Processed,
                   readers, cur, body, todo, cand, histVars>>

\* line 111: Lock() returns when the last reader has left
LockWait(p) ==
    /\ pc[p] = "lockwait"
    /\ readers = {}
    /\ pc' = [pc EXCEPT ![p] = "check2"]
    /\ UNCHANGED <<multiVars, files, page, config, mainpc, result, Resources, closed, Processed,
                   lockVars, cur, body, todo, cand, histVars>>

\* processURL without the second look at Processed
StillNewUnchecked(p) == TRUE

\* whether the second look at Processed, under the write lock, finds the
\* URL unmarked (line 112)
StillNew(p) == cand[p].URL \notin Processed

\* lines 112-113: the second look at Processed; an unmarked URL is marked
Check2(p) ==
    /\ pc[p] = "check2"
    /\ IF StillNew(p)
       THEN /\ Processed' = Processed \cup {cand[p].URL}
            /\ pc' = [pc EXCEPT ![p] = "send"]
       ELSE /\ pc' = [pc EXCEPT ![p] = "unlock"]
            /\ UNCHANGED Processed
    /\ UNCHANGED <<multiVars, files, page, config, mainpc, result, Resources, closed, lockVars,
                   cur, body, todo, cand, histVars>>

\* lines 114-118: the send on the channel, which waits while the buffer is
\* full and panics on a closed channel
Send(p) ==
    /\ pc[p] = "send"
    /\ IF closed
       THEN /\ pc' = [pc EXCEPT ![p] = "panic"]
            /\ UNCHANGED <<Resources, sent>>
       ELSE /\ Len(Resources) < QueueCap
            /\ Resources' = Append(Resources, cand[p])
            /\ sent' = Append(sent, cand[p])
            /\ pc' = [pc EXCEPT ![p] = "unlock"]
    /\ UNCHANGED <<multiVars, files, page, config, mainpc, result, closed, Processed, lockVars,
                   cur, body, todo, cand, fetchLog, ndeq, nsettled, err>>

\* line 120: ProcessLock.Unlock()
Unlock(p) ==
    /\ pc[p] = "unlock"
    /\ writer' = 0
    /\ Return(p)
    /\ UNCHANGED <<multiVars, files, page, config, mainpc, result, Resources, closed, Processed,
                   readers, cur, body, histVars>>

(***************************************************************************)
(* After Parse: lines 158-166 of Mirror.Start                              *)
(***************************************************************************)

\* a loop that converts every HTML file, whatever the configuration says
ConvertAlways(cfg) == TRUE

\* whether line 161 lets ConvertLinks run
ConvertEnabled(cfg) == cfg.ConvertLinks

\* f.Close(), then the test of config.ConvertLinks
CloseFile(p) ==
    /\ pc[p] = "close"
    /\ IF ConvertEnabled(config)
       THEN /\ pc' = [pc EXCEPT ![p] = "convert"]
            /\ UNCHANGED <<cur, body, nsettled>>
       ELSE Settle(p)
    /\ UNCHANGED <<multiVars, files, page, config, mainpc, result, Resources, closed, Processed,
                   lockVars, todo, cand, sent, fetchLog, ndeq, err>>

\* Converter.ConvertLinks on the goroutine's file. ReadFile, html.Parse or
\* html.Render fails, or WriteFile cannot open the file, and the file is as
\* it was; or WriteFile fails after it has truncated the file; or the file
\* is written back with its values converted
ConvertLinks(p) ==
    \/ /\ Failed(p, "convert")
       /\ UNCHANGED page
    \/ /\ Failed(p, "convert")
       /\ page' = [page EXCEPT ![p] = TornFile(@)]
    \/ /\ UNCHANGED err
       /\ page' = [page EXCEPT ![p] = ConvertedFile(config, @)]

\* lines 162-164 of Mirror.Start: an error of ConvertLinks is only printed
Convert(p) ==
    /\ pc[p] = "convert"
    /\ ConvertLinks(p)
    /\ Settle(p)
    /\ UNCHANGED <<config, mainpc, result, Resources, closed, Processed,
                   lockVars, todo, cand, sent, fetchLog, ndeq, files, multiVars>>

(***************************************************************************)
(* Specifications                                                          *)
(***************************************************************************)

ProcessURL(p) ==
    \/ Filter(p)
    \/ RLock(p)
    \/ Check1(p)
    \/ Lock(p)
    \/ LockWait(p)
    \/ Check2(p)
    \/ Send(p)
    \/ Unlock(p)

\* line 171 against line 140: Start waits in wg.Wait for the goroutine, the
\* goroutine waits in its range for a resource on an empty channel that
\* nobody is left to send on and nobody closes
Asleep ==
    /\ mainpc = "wait"
    /\ Resources = <<>>
    /\ ~closed
    /\ \A p \in Procs : pc[p] \in {"idle", "recv"}

\* with every goroutine asleep the Go runtime may end the process ("fatal
\* error: all goroutines are asleep - deadlock!"); it does not while a
\* network poller of the HTTP client is live, and then the process hangs.
\* Start returns in neither case
Fatal ==
    /\ Asleep
    /\ mainpc' = "fatal"
    /\ result' = "fatal"
    /\ UNCHANGED <<multiVars, files, page, config, Resources, closed, Processed, lockVars, pc, cur,
                   body, todo, cand, histVars>>

\* the steps of the program's own goroutines
Step ==
    \/ New
    \/ Start
    \/ \E p \in Procs :
          \/ Recv(p)
          \/ Download(p)
          \/ Open(p)
          \/ ParseDoc(p)
          \/ ProcessURL(p)
          \/ CloseFile(p)
          \/ Convert(p)

Next ==
    \/ Step
    \/ Fatal

\* the crawl as main runs it: New, Start and the one goroutine of Start
Spec == Init /\ [][Next]_vars

\* every goroutine that can take a step eventually takes one; the runtime
\* is not bound to end a process whose goroutines are all asleep
FairSpec == Spec /\ WF_vars(Step)

(***************************************************************************)
(* Concurrent callers of Parser.Parse: NumProcs goroutines hand link       *)
(* values to processURL on the queue that Start has seeded                 *)
(***************************************************************************)

\* the number of link values each concurrent caller hands to processURL
MaxCalls == 2

\* two spellings of one URL, and the seed itself
SharedLinks == {LinkRel, LinkAbs, LinkSeed}

\* what a caller hands over: one to MaxCalls link values, each once
SharedDocs ==
    {d \in SeqsUpTo(SharedLinks, MaxCalls) \ {<<>>} :
        \A i, j \in 1..Len(d) : i # j => d[i] # d[j]}

InitShared ==
    /\ InitCommon
    /\ MultiIdle
    /\ config \in {c \in RunConfigs : c.URL = SeedURL}
    /\ mainpc = "wait"
    /\ result = "none"
    /\ Resources = <<InitialResourceOf[config]>>
    /\ sent = <<InitialResourceOf[config]>>
    /\ Processed = {config.URL}
    /\ pc = [p \in Procs |-> "pu"]
    /\ todo \in [Procs -> SharedDocs]

NextShared == \E p \in Procs : ProcessURL(p)

SpecShared == InitShared /\ [][NextShared]_vars

(***************************************************************************)
(* One page of the crawl: the goroutine has written the seed page, which   *)
(* holds any kinds of link value, and goes through lines 148-166 with it;  *)
(* then ConvertLinks is called on the converted file once more             *)
(***************************************************************************)

\* ConvertLinks called again on a file it has converted
ConvertAgain(p) ==
    /\ pc[p] = "recv"
    /\ page[p].conv = 1
    /\ page[p].whole
    /\ ConvertLinks(p)
    /\ UNCHANGED <<config, mainpc, result, Resources, closed, Processed,
                   lockVars, pc, cur, body, todo, cand, sent, fetchLog, ndeq,
                   nsettled, files, multiVars>>

InitPage ==
    /\ config \in RunConfigs
    /\ mainpc = "wait"
    /\ result = "none"
    /\ Resources = <<>>
    /\ closed = FALSE
    /\ Processed = {config.URL}
    /\ readers = {}
    /\ writer = 0
    /\ pc = [p \in Procs |-> IF p = Worker THEN "open" ELSE "idle"]
    /\ cur = [p \in Procs |->
                IF p = Worker THEN InitialResourceOf[config] ELSE NoRes]
    /\ body \in {[p \in Procs |-> IF p = Worker THEN d ELSE <<>>] :
                    d \in PageDocs}
    /\ todo = [p \in Procs |-> <<>>]
    /\ cand = [p \in Procs |-> NoRes]
    /\ sent = <<InitialResourceOf[config]>>
    /\ fetchLog = <<config.URL>>
    /\ ndeq = 1
    /\ nsettled = 0
    /\ err = [p \in Procs |-> "nil"]
    /\ files = {InitialResourceOf[config].LocalPath}
    /\ page = [p \in Procs |->
                 IF p = Worker
                 THEN FetchedFile(InitialResourceOf[config].LocalPath, body[p])
                 ELSE NoFile]
    /\ MultiIdle

NextPage ==
    \E p \in Procs :
        \/ Open(p)
        \/ ParseDoc(p)
        \/ ProcessURL(p)
        \/ CloseFile(p)
        \/ Convert(p)
        \/ ConvertAgain(p)

SpecPage == InitPage /\ [][NextPage]_vars

(***************************************************************************)
(* A page with as many links as the channel has room for: the goroutine    *)
(* is in Parse on the seed page (line 155), goes through lines 158-166     *)
(* with it, then ranges again                                              *)
(***************************************************************************)

\* what Parse has sent on the channel for the first links of the page
ManySent(cfg) ==
    [i \in 1..(QueueCap - 1) |-> ManyCandidateOf[<<cfg, ManyLinks[i]>>]]

\* the goroutine is in Parse on the seed page and has handed the first
\* QueueCap - 1 links to processURL, which has sent them all
InitFull ==
    /\ config \in FullConfigs
    /\ mainpc = "wait"
    /\ result = "none"
    /\ Resources = ManySent(config)
    /\ closed = FALSE
    /\ Processed = {config.URL}
           \cup {ManySent(config)[i].URL : i \in 1..(QueueCap - 1)}
    /\ readers = {}
    /\ writer = 0
    /\ pc = [p \in Procs |-> IF p = Worker THEN "pu" ELSE "idle"]
    /\ cur = [p \in Procs |->
                IF p = Worker THEN InitialResourceOf[config] ELSE NoRes]
    /\ todo \in {[p \in Procs |-> IF p = Worker THEN d ELSE <<>>] :
                    d \in TailDocs}
    /\ body = [p \in Procs |->
                 IF p = Worker THEN ManyLinks \o todo[p] ELSE <<>>]
    /\ cand = [p \in Procs |-> NoRes]
    /\ sent = <<InitialResourceOf[config]>> \o ManySent(config)
    /\ fetchLog = <<config.URL>>
    /\ ndeq = 1
    /\ nsettled = 0
    /\ err = [p \in Procs |-> "nil"]
    /\ files = {InitialResourceOf[config].LocalPath}
    /\ page = [p \in Procs |->
                 IF p = Worker
                 THEN FetchedFile(InitialResourceOf[config].LocalPath, body[p])
                 ELSE NoFile]
    /\ MultiIdle

NextFull ==
    \E p \in Procs :
        \/ ProcessURL(p)
        \/ CloseFile(p)
        \/ Convert(p)
        \/ Recv(p)

SpecFull == InitFull /\ [][NextFull]_vars

(***************************************************************************)
(* downloadMultipleFiles (main.go, lines 201-226), called by main with the *)
(* file of the -i flag; the mirror is not running                          *)
(***************************************************************************)

mirrorVars == <<config, mainpc, result, Resources, closed, Processed, readers,
                writer, pc, cur, body, todo, cand, sent, fetchLog, ndeq,
                nsettled, err, files, page>>

\* lines 202-205: os.Open(inputFile) fails and its error is returned, or
\* the file is open
OpenInput ==
    /\ dmpc = "open"
    /\ \/ /\ dmpc' = "returned"
          /\ dmret' = "error"
       \/ /\ dmpc' = "scan"
          /\ UNCHANGED dmret
    /\ UNCHANGED <<mirrorVars, inputFile, urls, started, wg, gpc, logged>>

\* lines 208-212: the scanner loop; scanner.Err() is not looked at
ScanLines ==
    /\ dmpc = "scan"
    /\ urls' = Scanned(inputFile)
    /\ dmpc' = "range"
    /\ UNCHANGED <<mirrorVars, inputFile, started, wg, gpc, logged, dmret>>

\* lines 215-223: wg.Add(1) and the go statement for the next element of
\* urls, or the end of the loop
Go ==
    /\ dmpc = "range"
    /\ IF started < Len(urls)
       THEN /\ wg' = wg + 1
            /\ started' = started + 1
            /\ gpc' = [gpc EXCEPT ![started + 1] = "download"]
            /\ UNCHANGED dmpc
       ELSE /\ dmpc' = "wait"
            /\ UNCHANGED <<wg, started, gpc>>
    /\ UNCHANGED <<mirrorVars, inputFile, urls, logged, dmret>>

\* line 219: downloadFile(url, config) returns an error (http.Get, the
\* status, MkdirAll, os.Create or io.Copy fails), or nil
DownloadFile(i) ==
    /\ gpc[i] = "download"
    /\ \/ gpc' = [gpc EXCEPT ![i] = "log"]
       \/ /\ GettableOf[ShortLine(urls[i])]
          /\ gpc' = [gpc EXCEPT ![i] = "deferred"]
    /\ UNCHANGED <<mirrorVars, inputFile, urls, dmpc, started, wg, logged,
                   dmret>>

\* line 220: log.Printf of the error
LogError(i) ==
    /\ gpc[i] = "log"
    /\ logged' = logged \cup {i}
    /\ gpc' = [gpc EXCEPT ![i] = "deferred"]
    /\ UNCHANGED <<mirrorVars, inputFile, urls, dmpc, started, wg, dmret>>

\* line 218: the deferred wg.Done()
Done(i) ==
    /\ gpc[i] = "deferred"
    /\ wg' = wg - 1
    /\ gpc' = [gpc EXCEPT ![i] = "exit"]
    /\ UNCHANGED <<mirrorVars, inputFile, urls, dmpc, started, logged, dmret>>

\* lines 224-225: wg.Wait() returns when the counter is zero, and nil is
\* returned
Wait ==
    /\ dmpc = "wait"
    /\ wg = 0
    /\ dmpc' = "returned"
    /\ dmret' = "nil"
    /\ UNCHANGED <<mirrorVars, inputFile, urls, started, wg, gpc, logged>>

\* main has read the flags and calls downloadMultipleFiles (main.go, line
\* 305)
InitMulti ==
    /\ InitCommon
    /\ config \in {c \in Configs : c.URL = SeedURL}
    /\ mainpc = "multi"
    /\ result = "none"
    /\ Resources = <<>>
    /\ Processed = {}
    /\ pc = Idle
    /\ todo = [p \in Procs |-> <<>>]
    /\ sent = <<>>
    /\ inputFile \in InputFiles
    /\ urls = <<>>
    /\ dmpc = "open"
    /\ started = 0
    /\ wg = 0
    /\ gpc = [i \in Routines |-> "none"]
    /\ logged = {}
    /\ dmret = "none"

NextMulti ==
    \/ OpenInput
    \/ ScanLines
    \/ Go
    \/ Wait
    \/ \E i \in Routines :
          \/ DownloadFile(i)
          \/ LogError(i)
          \/ Done(i)

SpecMulti == InitMulti /\ [][NextMulti]_vars

(***************************************************************************)
(* Properties                                                              *)
(***************************************************************************)

SentURLs == {sent[i].URL : i \in 1..Len(sent)}

\* the URLs a Resource of the model can carry
KnownURLs ==
    {InitialResourceOf[c].URL : c \in RunConfigs}
        \cup {CandidateOf[cl].URL : cl \in RunConfigs \X PageLinkValues}

\* url.Parse of every such URL
ParsedOf == Table([u \in KnownURLs |-> ParseURL(u)])

\* the canonical form of a URL: the URL without its fragment
Canonical(url) == URLString([ParsedOf[url] EXCEPT !.Fragment = <<>>])

PathOf(url) == ParsedOf[url].Path
HostOf(url) == ParsedOf[url].Host

\* C1: every crawl terminates: once Start has seeded the queue and waits
\* for its goroutine, Start eventually returns.
C1_Termination == (mainpc = "wait") ~> (mainpc = "exit")

\* C2: downloadResource is called at most once for every canonical URL
\* (the URL without its fragment), the seed included.
C2_AtMostOnceFetch ==
    \A i, j \in 1..Len(fetchLog) :
        i # j => Canonical(fetchLog[i]) # Canonical(fetchLog[j])

\* C3: when several goroutines call processURL with the same URL, exactly
\* one of them sends it: no URL is sent twice, a sent URL is marked, a
\* marked URL has been sent or is being sent by the goroutine that holds
\* the write lock, and a goroutine leaves the critical section only when
\* the URL it carried has been sent.
C3_AtomicEnqueue ==
    /\ \A i, j \in 1..Len(sent) : i # j => sent[i].URL # sent[j].URL
    /\ SentURLs \subseteq Processed
    /\ \A k \in Processed :
          k \in SentURLs \/ \E p \in Procs : pc[p] = "send" /\ cand[p].URL = k
    /\ \A p \in Procs :
          pc[p] \in {"check2", "send", "unlock"} => writer = p /\ readers = {}
    /\ \A p \in Procs : pc[p] = "unlock" => cand[p].URL \in SentURLs

\* two goroutines carried the same URL past the first look at Processed;
\* one has sent it and the other still waits for the write lock
C3_Witness ==
    \E p, q \in Procs :
        /\ p # q
        /\ pc[p] = "unlock"
        /\ pc[q] = "lock"
        /\ cand[p].URL = cand[q].URL
        /\ cand[p].URL \in SentURLs

\* C4: no resource sent on the queue, the seed included, has a rejected
\* extension or a path under an excluded prefix.
C4_FilterCorrect ==
    \A i \in 1..Len(sent) :
        /\ ~Rejected(config, PathOf(sent[i].URL))
        /\ ~Excluded(config, PathOf(sent[i].URL))

\* C5: every resource sent on the queue, and every resource fetched, has
\* the host of the seed URL.
C5_SingleHost ==
    /\ \A i \in 1..Len(sent) : HostOf(sent[i].URL) = HostOf(config.URL)
    /\ \A i \in 1..Len(fetchLog) : HostOf(fetchLog[i]) = HostOf(config.URL)

\* Parse has walked a fetched page whose first link points at another host
C5_Witness ==
    /\ pc[Worker] = "close"
    /\ err[Worker] = "nil"
    /\ body[Worker] # <<>>
    /\ body[Worker][1] = LinkOther

\* nothing is pending and no received resource is being processed
Quiescent ==
    /\ mainpc = "wait"
    /\ Resources = <<>>
    /\ \A p \in Procs : pc[p] \in {"idle", "recv"}

\* C6: completion is declared exactly at quiescence: the channel is closed
\* only when nothing is pending and nothing is being processed, nothing is
\* sent on a closed channel, and in a quiescent state the channel is closed
\* or the program has a step left that leads to closing it.
C6_DoneExactlyAtQuiescence ==
    /\ closed => Resources = <<>> /\ \A p \in Procs : pc[p] \in {"idle", "done"}
    /\ \A p \in Procs : pc[p] # "panic"
    /\ Quiescent => closed \/ ENABLED Step

C8_SeedErrorsFatal ==
    /\ (~ParsableOf[config]) ~> (result = "error")
    /\ (ndeq = 1 /\ err[Worker] = "download") ~> (result = "error")
    /\ [](result = "error" =>
            \/ ~ParsableOf[config]
            \/ (fetchLog # <<>> /\ fetchLog[1] = config.URL))

\* C9: every Resource sent on the queue, the seed included, has LocalPath
\* equal to OutputDir joined with the host and the path of its URL.
C9_PathDeterminism ==
    \A i \in 1..Len(sent) :
        sent[i].LocalPath =
            Join(<<config.OutputDir, HostOf(sent[i].URL), PathOf(sent[i].URL)>>)

\* C10: no two resources sent on the queue under distinct keys of Processed
\* have the same LocalPath.
C10_UniquePaths ==
    \A i, j \in 1..Len(sent) :
        sent[i].URL # sent[j].URL => sent[i].LocalPath # sent[j].LocalPath

\* the paths a value written into the file at filePath can be read as: from
\* the directory of the file, as a browser reads it, or from the directory
\* the crawl ran in
PointsAt(filePath, val) == {Join(<<Dir(filePath), val>>), Clean(val)}

\* C11: after a crawl with ConvertLinks, every href or src value of a
\* converted file that differs from the value as fetched points at a file
\* that exists; a value whose target is not in the mirror is as fetched.
C11_RewriteSafety ==
    Asleep =>
        \A p \in Procs :
            page[p].conv > 0 /\ page[p].whole =>
                \A i \in 1..Len(page[p].links) :
                    page[p].links[i] # page[p].fetched[i] =>
                        PointsAt(page[p].path, page[p].links[i]) \cap files # {}

\* C12: converting a converted file again changes no href or src value.
C12_RewriteIdempotent ==
    [][\A p \in Procs :
          page[p].conv = 1 /\ page'[p].conv = 2 =>
              page'[p].links = page[p].links]_vars

\* C13: for every link value of a page that processURL maps to a Resource,
\* the value ConvertLinks writes is a path that, read from the directory of
\* the converted file, is that Resource's LocalPath.
C13_RewriterAgreesWithExtractor ==
    \A p \in Procs :
        page[p].conv = 1 /\ page[p].whole =>
            \A i \in 1..Len(page[p].links) :
                CandidateOf[<<config, page[p].fetched[i]>>] # NoRes =>
                    Join(<<Dir(page[p].path), page[p].links[i]>>)
                        = CandidateOf[<<config, page[p].fetched[i]>>].LocalPath

\* whether a value is empty or only a fragment, or resolves to a host other
\* than the seed's
Foreign(cfg, rawURL) ==
    \/ rawURL = <<>>
    \/ HasPrefix(rawURL, <<"#">>)
    \/ ParseURL(rawURL).ok /\ Resolve(cfg, rawURL).Host # BaseURL(cfg).Host

\* C14: ConvertLinks leaves every value that is empty, only a fragment, or
\* resolves to another host exactly as it was.
C14_ForeignLinksUnchanged ==
    \A p \in Procs :
        page[p].conv = 1 /\ page[p].whole =>
            \A i \in 1..Len(page[p].links) :
                Foreign(config, page[p].fetched[i]) =>
                    page[p].links[i] = page[p].fetched[i]

\* the Resource of a link value found in the page at pageURL when the value
\* is resolved against the URL of that page
LinkedResource(cfg, pageURL, rawURL) ==
    Candidate([cfg EXCEPT !.URL = pageURL], rawURL)

\* LinkedResource for every configuration, page and link value of the crawl
LinkedOf ==
    Table([t \in RunConfigs \X KnownURLs \X LinkValues |->
              LinkedResource(t[1], t[2], t[3])])

LinkedURLs == {LinkedOf[t].URL : t \in DOMAIN LinkedOf} \ {<<>>}

FetchedURLs == {fetchLog[i] : i \in 1..Len(fetchLog)}

\* C15: every URL linked from a fetched and parsed page that passes the
\* host, exclude and reject filters is eventually fetched, and no link to
\* another host, to an excluded path or to a rejected extension is fetched.
C15_CrawlComplete ==
    /\ \A u \in LinkedURLs :
          (\E p \in Procs :
              /\ pc[p] = "pu"
              /\ LinkedOf[<<config, cur[p].URL, Head(todo[p])>>].URL = u)
          ~> (u \in FetchedURLs)
    /\ [](\A i \in 2..Len(fetchLog) :
              /\ HostOf(fetchLog[i]) = HostOf(config.URL)
              /\ ~Rejected(config, PathOf(fetchLog[i]))
              /\ ~Excluded(config, PathOf(fetchLog[i])))

\* C16: a Resource sent on the queue has IsHTML exactly when the lower-cased
\* extension of its URL path is html or htm, or the path has no extension.
C16_IsHTMLClassification ==
    \A i \in 1..Len(sent) :
        sent[i].IsHTML <=>
            ExtOf(PathOf(sent[i].URL)) \in
                {<<"h", "t", "m", "l">>, <<"h", "t", "m">>, <<>>}

\* C17: a link value found in a fetched page is resolved against the URL of
\* that page: when processURL has looked at a value, the Resource it goes
\* on with has the URL of the value resolved against the page's URL, and it
\* skips the value only when that URL is filtered out.
C17_ResolvedAgainstPage ==
    [][\A p \in Procs :
          pc[p] = "pu" /\ (pc'[p] # "pu" \/ todo'[p] # todo[p]) =>
              IF pc'[p] = "rlock"
              THEN cand'[p].URL =
                       LinkedOf[<<config, cur[p].URL, Head(todo[p])>>].URL
              ELSE LinkedOf[<<config, cur[p].URL, Head(todo[p])>>] = NoRes]_vars

\* C18: a resource whose fetch fails is absent from the mirror and is
\* abandoned: when downloadResource returns an error for a resource, no
\* file exists at the resource's LocalPath, and the loop goes on to the
\* next resource without parsing or converting this one.
C18_FailedFetchLeavesNoFile ==
    [][\A p \in Procs :
          pc[p] = "download" /\ err'[p] = "download" =>
              /\ cur[p].LocalPath \notin files'
              /\ pc'[p] = "recv"
              /\ page'[p].conv = 0]_vars

\* the goroutine is about to call Converter.ConvertLinks on its resource:
\* conversion is enabled, the resource is HTML, its download has succeeded
\* and the file at LocalPath is whole and as fetched, the walk of
\* Parser.Parse over that file is over, and the call is not held back by
\* anything (whatever is still queued or not yet fetched)
ReadyToConvert(p) ==
    /\ config.ConvertLinks
    /\ cur[p].IsHTML
    /\ cur[p].LocalPath \in files
    /\ page[p].path = cur[p].LocalPath
    /\ page[p].whole
    /\ page[p].conv = 0
    /\ page[p].links = page[p].fetched
    /\ body[p] = page[p].fetched
    /\ todo[p] = <<>>
    /\ ENABLED Convert(p)

\* C19: ConvertLinks runs on a resource only if conversion is enabled and
\* the resource is HTML, and only after its own download has succeeded and
\* its links have been extracted from the file as fetched; it never waits
\* for the fetch of a child resource.
C19_RewriteOrdering ==
    \A p \in Procs :
        pc[p] = "convert" => ReadyToConvert(p) /\ err[p] = "nil"

\* C19 as amended: as C19, where the extraction from the file as fetched
\* has either finished or failed with a parse error that was only printed.
C19_RewriteOrderingAmended ==
    \A p \in Procs :
        pc[p] = "convert" => ReadyToConvert(p) /\ err[p] \in {"nil", "parse"}

\* a page is about to be converted while a resource it links to is queued
\* and has not been fetched
C19_Witness ==
    \E p \in Procs :
        /\ pc[p] = "convert"
        /\ err[p] = "nil"
        /\ body[p] # <<>>
        /\ \E i \in 1..Len(Resources) : Resources[i].URL \notin FetchedURLs

\* C20: whenever Converter.ConvertLinks returns an error, the content of
\* the file at that path is identical to the content written by the fetch,
\* and the crawl continues with the next resource.
C20_RewriteErrorKeepsFile ==
    [][\A p \in Procs :
          pc[p] = "convert" /\ err'[p] = "convert" =>
              /\ page'[p].whole
              /\ page'[p].links = page[p].fetched
              /\ page'[p].fetched = page[p].fetched
              /\ pc'[p] = "recv"]_vars

\* the goroutines that have finished: their deferred wg.Done() has run
Finished == {i \in Routines : gpc[i] = "exit"}

\* C21: downloadMultipleFiles starts one concurrent download per line of
\* the input file and returns only after every one of them has finished; a
\* failed download is logged, stops no other download, and does not make
\* the function return an error.
C21_MultipleDownloads ==
    /\ dmpc \in {"wait", "returned"} /\ dmret # "error" =>
           started = Len(inputFile)
    /\ dmpc = "returned" /\ dmret # "error" =>
           /\ Finished = 1..started
           /\ dmret = "nil"
    /\ dmret = "error" => started = 0
    /\ \A i \in logged : gpc[i] \in {"deferred", "exit"}
    /\ \A i \in 1..started : gpc[i] = "download" => ENABLED DownloadFile(i)

\* the goroutines that receive from Queue.Resources: the one goroutine of
\* Mirror.Start
Consumers == {Worker}

\* C22: the send of processURL on the bounded channel never waits for
\* ever: whenever a goroutine is at the send, holding ProcessLock, the
\* channel has room, or a consumer other than the sender is at the receive
\* and will make room.
C22_EnqueueNeverBlocks ==
    \A p \in Procs :
        pc[p] = "send" /\ ~closed =>
            \/ Len(Resources) < QueueCap
            \/ \E q \in Consumers \ {p} : pc[q] = "recv"

====
